---------------------------- MODULE Spec2Model ----------------------------
(***************************************************************************)
(* Hybrid retrieval and ranking pipeline of the legal assistant backend    *)
(* (backend/app/services/retrieval).                                       *)
(*                                                                         *)
(* Scores are Python floats in the source.  They are modelled as exact     *)
(* rationals [n, d] in lowest terms with d > 0; every comparison and every *)
(* arithmetic step of the source is carried out on these rationals.        *)
(* A dict key that the source has not set yet is the value NoScore (for a  *)
(* score), "unset" (for a label) or 0 (for llm_rank).                      *)
(***************************************************************************)
EXTENDS Integers, Sequences, FiniteSets, TLC

VARIABLES
    settings,             \* app.core.config.settings, as read by the pipeline
    query,                \* the SearchQuery handed to hybrid_search
    pc,                   \* position of the hybrid_search coroutine
    embed_attempts,       \* failed attempts of the embed_batch call in flight
    failed_call,          \* the retrieval call that raised, "none" otherwise
    vector_results,       \* hybrid_search: vector_results
    keyword_results,      \* hybrid_search: keyword_results
    merged_results,       \* merge_and_score's return value
    deduplicated_results, \* hybrid_search: deduplicated_results
    cohere_outcome,       \* what the Stage-1 collaborator answered
    cohere_reranked,      \* hybrid_search: cohere_reranked
    llm_outcome,          \* what the Stage-2 collaborator answered
    llm_reranked,         \* final_results as assigned at lines 176-183
    response,             \* the SearchResponse returned
    filters,              \* hybrid_search: filters (lines 119-130)
    job_store,            \* ingestion.py: job_store, job_id -> IngestionJob
    tasks,                \* the background tasks made by asyncio.create_task
    chunk_store,          \* the chunks collection, as the indexing loop wrote it
    confirm_calls,        \* how the confirm_job calls for each job_id ended
    executions            \* hybrid_search executions running side by side

vars == <<settings, query, pc, embed_attempts, failed_call, vector_results,
          keyword_results, merged_results, deduplicated_results,
          cohere_outcome, cohere_reranked, llm_outcome, llm_reranked,
          response, filters, job_store, tasks, chunk_store, confirm_calls,
          executions>>

pipeline_vars == <<settings, query, pc, embed_attempts, failed_call,
                   vector_results, keyword_results, merged_results,
                   deduplicated_results, cohere_outcome, cohere_reranked,
                   llm_outcome, llm_reranked, response, filters>>

ingestion_vars == <<job_store, tasks, chunk_store, confirm_calls>>

concurrent_vars == <<executions>>

---------------------------------------------------------------------------
(* Bounds of the model *)

\* longest list a retriever returns in the fusion specification
MaxLen == 3
\* largest top_k a query asks for
MaxTopK == 2
\* most items in a Stage-1 (Cohere) response
MaxItems == 2
\* most numbers in the index array of a Stage-2 (LLM) response
MaxRanking == 2
\* COHERE_RERANK_TOP_N: 20 in config.py, scaled to a store of three chunks
StageOneTopN == 2
\* longest candidate list handed to deduplicate on its own
MaxChunks == 3
\* most chunks a parser returns for one PDF
MaxJobChunks == 3
\* INGESTION_BATCH_SIZE: 10 in config.py, scaled to PDFs of a few chunks
BatchSize == 2

---------------------------------------------------------------------------
(* Rational arithmetic standing for the source's float arithmetic *)

Abs(x) == IF x < 0 THEN -x ELSE x

RECURSIVE GCD(_, _)
GCD(a, b) == IF b = 0 THEN a ELSE GCD(b, a % b)

Rat(n, d) ==
    LET s == IF d < 0 THEN -1 ELSE 1
        g == GCD(Abs(n), Abs(d))
    IN  [n |-> (s * n) \div g, d |-> (s * d) \div g]

NoScore == [n |-> 0, d |-> 0]
Zero == Rat(0, 1)
One == Rat(1, 1)

RAdd(a, b) == Rat(a.n * b.d + b.n * a.d, a.d * b.d)
RSub(a, b) == Rat(a.n * b.d - b.n * a.d, a.d * b.d)
RMul(a, b) == Rat(a.n * b.n, a.d * b.d)
RDiv(a, b) == Rat(a.n * b.d, a.d * b.n)
RLe(a, b) == a.n * b.d <= b.n * a.d
RLt(a, b) == a.n * b.d < b.n * a.d
RGe(a, b) == RLe(b, a)
RGt(a, b) == RLt(b, a)

---------------------------------------------------------------------------
(* Sequence helpers standing for Python list operations *)

Range(s) == {s[i] : i \in DOMAIN s}

\* s[:n] for n >= 0
Take(s, n) == SubSeq(s, 1, IF n < Len(s) THEN n ELSE Len(s))

\* Python's "s[:n] if n else s"
TakeIfTruthy(s, n) == IF n # 0 THEN Take(s, n) ELSE s

IndexOfId(s, id) ==
    IF \E i \in DOMAIN s : s[i].chunk_id = id
    THEN CHOOSE i \in DOMAIN s :
            /\ s[i].chunk_id = id
            /\ \A j \in DOMAIN s : s[j].chunk_id = id => i <= j
    ELSE 0

RMin(s) == CHOOSE x \in Range(s) : \A y \in Range(s) : RLe(x, y)
RMax(s) == CHOOSE x \in Range(s) : \A y \in Range(s) : RLe(y, x)

---------------------------------------------------------------------------
(* Candidates: the dicts that flow through the pipeline *)

\* a document as a retriever returns it: chunk_id, text and the raw score
StoreDoc(id, text, raw) ==
    [chunk_id |-> id, text_for_embedding |-> text, score |-> raw,
     normalized_score |-> NoScore,
     source |-> "unset", fused_score |-> NoScore, rerank_score |-> NoScore,
     original_score |-> NoScore, llm_rank_score |-> NoScore, llm_rank |-> 0]

---------------------------------------------------------------------------
(* hybrid_search.py: normalize_scores *)

\* a normalisation that divides by the maximum instead of min-max scaling
normalize_scores_ByMax(results) ==
    IF results = <<>> THEN results
    ELSE
        LET scores == [i \in DOMAIN results |-> results[i].score]
            max_score == RMax(scores)
        IN  [i \in DOMAIN results |->
                [results[i] EXCEPT !.normalized_score =
                    RDiv(results[i].score, max_score)]]

\* a normalisation that measures from the maximum: the best item gets 0.0
normalize_scores_Inverted(results) ==
    IF results = <<>> THEN results
    ELSE
        LET scores == [i \in DOMAIN results |-> results[i].score]
            min_score == RMin(scores)
            max_score == RMax(scores)
        IN  IF max_score = min_score
            THEN [i \in DOMAIN results |->
                    [results[i] EXCEPT !.normalized_score = One]]
            ELSE [i \in DOMAIN results |->
                    [results[i] EXCEPT !.normalized_score =
                        RDiv(RSub(max_score, results[i].score),
                             RSub(max_score, min_score))]]

\* a normalisation that gives 0.0 to a list whose scores are all equal
normalize_scores_EqualToZero(results) ==
    IF results = <<>> THEN results
    ELSE
        LET scores == [i \in DOMAIN results |-> results[i].score]
            min_score == RMin(scores)
            max_score == RMax(scores)
        IN  IF max_score = min_score
            THEN [i \in DOMAIN results |->
                    [results[i] EXCEPT !.normalized_score = Zero]]
            ELSE [i \in DOMAIN results |->
                    [results[i] EXCEPT !.normalized_score =
                        RDiv(RSub(results[i].score, min_score),
                             RSub(max_score, min_score))]]

normalize_scores(results) ==
    IF results = <<>> THEN results
    ELSE
        LET scores == [i \in DOMAIN results |-> results[i].score]
            min_score == RMin(scores)
            max_score == RMax(scores)
        IN  IF max_score = min_score
            THEN [i \in DOMAIN results |->
                    [results[i] EXCEPT !.normalized_score = One]]
            ELSE [i \in DOMAIN results |->
                    [results[i] EXCEPT !.normalized_score =
                        RDiv(RSub(results[i].score, min_score),
                             RSub(max_score, min_score))]]

---------------------------------------------------------------------------
(* hybrid_search.py: merge_and_score *)

\* combined[chunk_id] = doc on an insertion-ordered dict
DictSet(combined, doc) ==
    LET i == IndexOfId(combined, doc.chunk_id)
    IN  IF i = 0 THEN Append(combined, doc)
        ELSE [combined EXCEPT ![i] = doc]

\* the loop of lines 71-77 over the normalized vector results
RECURSIVE AddVector(_, _)
AddVector(combined, results) ==
    IF results = <<>> THEN combined
    ELSE
        LET result == [Head(results) EXCEPT !.source = "vector"]
        IN  AddVector(
                DictSet(combined,
                    [result EXCEPT !.fused_score =
                        RMul(result.normalized_score,
                             settings.VECTOR_SCORE_WEIGHT)]),
                Tail(results))

\* a loop body that inserts the keyword result even when the chunk is present
KeywordStep_NoBoost(combined, result) ==
    DictSet(combined,
        [result EXCEPT !.source = "keyword",
                       !.fused_score = RMul(result.normalized_score,
                                            settings.KEYWORD_SCORE_WEIGHT)])

\* one iteration of the loop of lines 80-92: boost a chunk already present,
\* insert a new one
KeywordStep(combined, result) ==
    LET i == IndexOfId(combined, result.chunk_id)
    IN  IF i # 0
        THEN [combined EXCEPT
                ![i].fused_score =
                    RAdd(combined[i].fused_score,
                         RMul(result.normalized_score,
                              settings.KEYWORD_SCORE_WEIGHT)),
                ![i].source = "hybrid"]
        ELSE DictSet(combined,
                [result EXCEPT !.source = "keyword",
                               !.fused_score =
                                    RMul(result.normalized_score,
                                         settings.KEYWORD_SCORE_WEIGHT)])

\* a loop that marks every keyword result "hybrid", present before or not
RECURSIVE AddKeyword_AllHybrid(_, _)
AddKeyword_AllHybrid(combined, results) ==
    IF results = <<>> THEN combined
    ELSE
        LET step == KeywordStep(combined, Head(results))
            i == IndexOfId(step, Head(results).chunk_id)
        IN  AddKeyword_AllHybrid([step EXCEPT ![i].source = "hybrid"],
                                 Tail(results))

RECURSIVE AddKeyword(_, _)
AddKeyword(combined, results) ==
    IF results = <<>> THEN combined
    ELSE AddKeyword(KeywordStep(combined, Head(results)), Tail(results))

\* list.sort(key = fused_score, reverse = True): stable, descending
InsertByFused(sorted, x) ==
    LET k == Cardinality({i \in DOMAIN sorted :
                            RGe(sorted[i].fused_score, x.fused_score)})
    IN  SubSeq(sorted, 1, k) \o <<x>> \o SubSeq(sorted, k + 1, Len(sorted))

RECURSIVE SortByFused(_, _)
SortByFused(sorted, rest) ==
    IF rest = <<>> THEN sorted
    ELSE SortByFused(InsertByFused(sorted, Head(rest)), Tail(rest))

\* a merge that leaves the dict in insertion order
merge_and_score_Unsorted(vector, keyword) ==
    LET combined == AddKeyword(AddVector(<<>>, normalize_scores(vector)),
                               normalize_scores(keyword))
    IN  [i \in DOMAIN combined |->
            [combined[i] EXCEPT !.score = combined[i].fused_score]]

merge_and_score(vector, keyword) ==
    LET combined == AddKeyword(AddVector(<<>>, normalize_scores(vector)),
                               normalize_scores(keyword))
        sorted == SortByFused(<<>>, combined)
    IN  [i \in DOMAIN sorted |->
            [sorted[i] EXCEPT !.score = sorted[i].fused_score]]

\* what the caller's lists hold after merge_and_score: normalize_scores and
\* the two loops write normalized_score and source into the caller's dicts
VectorAfterMerge(vector) ==
    LET n == normalize_scores(vector)
    IN  [i \in DOMAIN n |-> [n[i] EXCEPT !.source = "vector"]]

KeywordAfterMerge(vector, keyword) ==
    LET n == normalize_scores(keyword)
    IN  [i \in DOMAIN n |->
            IF \E j \in DOMAIN vector : vector[j].chunk_id = n[i].chunk_id
            THEN n[i]
            ELSE [n[i] EXCEPT !.source = "keyword"]]

---------------------------------------------------------------------------
(* deduplication.py *)

\* a loop that remembers the texts it has seen instead of the chunk_ids
RECURSIVE DedupById_ByText(_, _, _)
DedupById_ByText(chunks, seen_ids, unique_chunks) ==
    IF chunks = <<>> THEN unique_chunks
    ELSE
        LET chunk == Head(chunks)
        IN  IF chunk.text_for_embedding \notin seen_ids
            THEN DedupById_ByText(Tail(chunks),
                                  seen_ids \cup {chunk.text_for_embedding},
                                  Append(unique_chunks, chunk))
            ELSE DedupById_ByText(Tail(chunks), seen_ids, unique_chunks)

RECURSIVE DedupById(_, _, _)
DedupById(chunks, seen_ids, unique_chunks) ==
    IF chunks = <<>> THEN unique_chunks
    ELSE
        LET chunk == Head(chunks)
        IN  IF chunk.chunk_id \notin seen_ids
            THEN DedupById(Tail(chunks), seen_ids \cup {chunk.chunk_id},
                           Append(unique_chunks, chunk))
            ELSE DedupById(Tail(chunks), seen_ids, unique_chunks)

deduplicate_by_id(chunks) == DedupById(chunks, {}, <<>>)

\* difflib.SequenceMatcher(None, a, b) on texts shorter than 200 characters
\* (no junk, no "popular" elements).  Positions are 0-based as in Python;
\* a block is a[i:i+k] = b[j:j+k].
RECURSIVE CommonPrefix(_, _, _, _, _, _)
CommonPrefix(a, b, i, j, ahi, bhi) ==
    IF i < ahi /\ j < bhi /\ a[i + 1] = b[j + 1]
    THEN 1 + CommonPrefix(a, b, i + 1, j + 1, ahi, bhi)
    ELSE 0

\* find_longest_match: the longest block; of those the one starting earliest
\* in a, and of those the one starting earliest in b
find_longest_match(a, b, alo, ahi, blo, bhi) ==
    LET blocks == {<<i, j>> : i \in alo..(ahi - 1), j \in blo..(bhi - 1)}
        size(m) == CommonPrefix(a, b, m[1], m[2], ahi, bhi)
    IN  IF \A m \in blocks : size(m) = 0
        THEN <<alo, blo, 0>>
        ELSE
            LET best == CHOOSE m \in blocks :
                    /\ size(m) > 0
                    /\ \A o \in blocks :
                        \/ size(o) < size(m)
                        \/ /\ size(o) = size(m)
                           /\ \/ m[1] < o[1]
                              \/ m[1] = o[1] /\ m[2] <= o[2]
            IN  <<best[1], best[2], size(best)>>

\* get_matching_blocks, summed: the number of matched characters
RECURSIVE MatchCount(_, _, _, _, _, _)
MatchCount(a, b, alo, ahi, blo, bhi) ==
    LET m == find_longest_match(a, b, alo, ahi, blo, bhi)
        i == m[1]
        j == m[2]
        k == m[3]
    IN  IF k = 0 THEN 0
        ELSE k
             + (IF alo < i /\ blo < j
                THEN MatchCount(a, b, alo, i, blo, j) ELSE 0)
             + (IF i + k < ahi /\ j + k < bhi
                THEN MatchCount(a, b, i + k, ahi, j + k, bhi) ELSE 0)

\* SequenceMatcher(None, a, b).ratio()
ratio(a, b) ==
    IF Len(a) + Len(b) = 0 THEN One
    ELSE Rat(2 * MatchCount(a, b, 0, Len(a), 0, Len(b)), Len(a) + Len(b))

\* a loop that rejects a chunk only when the similarity exceeds the threshold
RECURSIVE DedupBySimilarity_Strict(_, _, _)
DedupBySimilarity_Strict(chunks, threshold, unique_chunks) ==
    IF chunks = <<>> THEN unique_chunks
    ELSE
        LET chunk == Head(chunks)
            is_duplicate ==
                \E e \in DOMAIN unique_chunks :
                    RGt(ratio(chunk.text_for_embedding,
                              unique_chunks[e].text_for_embedding),
                        threshold)
        IN  DedupBySimilarity_Strict(Tail(chunks), threshold,
                IF is_duplicate THEN unique_chunks
                ELSE Append(unique_chunks, chunk))

RECURSIVE DedupBySimilarity(_, _, _)
DedupBySimilarity(chunks, threshold, unique_chunks) ==
    IF chunks = <<>> THEN unique_chunks
    ELSE
        LET chunk == Head(chunks)
            is_duplicate ==
                \E e \in DOMAIN unique_chunks :
                    RGe(ratio(chunk.text_for_embedding,
                              unique_chunks[e].text_for_embedding),
                        threshold)
        IN  DedupBySimilarity(Tail(chunks), threshold,
                IF is_duplicate THEN unique_chunks
                ELSE Append(unique_chunks, chunk))

deduplicate_by_similarity(chunks, threshold) ==
    DedupBySimilarity(chunks, threshold, <<>>)

\* a dispatch that hands the chunks back under an unknown method
deduplicate_UnknownPassesThrough(chunks, method) ==
    IF method = "id" THEN deduplicate_by_id(chunks)
    ELSE IF method = "similarity"
    THEN deduplicate_by_similarity(chunks,
                                   settings.DEDUP_SIMILARITY_THRESHOLD)
    ELSE IF method = "both"
    THEN deduplicate_by_similarity(deduplicate_by_id(chunks),
                                   settings.DEDUP_SIMILARITY_THRESHOLD)
    ELSE chunks

deduplicate(chunks, method) ==
    IF method = "id" THEN deduplicate_by_id(chunks)
    ELSE IF method = "similarity"
    THEN deduplicate_by_similarity(chunks,
                                   settings.DEDUP_SIMILARITY_THRESHOLD)
    ELSE IF method = "both"
    THEN deduplicate_by_similarity(deduplicate_by_id(chunks),
                                   settings.DEDUP_SIMILARITY_THRESHOLD)
    ELSE deduplicate_by_id(chunks)

---------------------------------------------------------------------------
(* reranking.py: cohere_rerank *)

\* documents[index] raises IndexError outside -len .. len-1; a negative index
\* counts from the end of the list
IndexInRange(documents, index) ==
    /\ index < Len(documents)
    /\ index >= -Len(documents)

PyIndex(documents, index) ==
    IF index >= 0 THEN documents[index + 1]
    ELSE documents[Len(documents) + index + 1]

\* lines 66-70: the copy of the document with the rerank score
CohereDoc(documents, item) ==
    LET doc == PyIndex(documents, item.index)
    IN  [doc EXCEPT !.rerank_score = item.relevance_score,
                    !.original_score = doc.score,
                    !.score = item.relevance_score]

\* whether the try block of lines 35-73 raises under this answer
CohereRaises(documents, outcome) ==
    \/ outcome.kind \in {"timeout", "http_error", "not_json"}
    \/ /\ outcome.kind = "ok"
       /\ \E i \in DOMAIN outcome.results :
            ~IndexInRange(documents, outcome.results[i].index)

cohere_rerank(documents, top_n, outcome) ==
    IF ~settings.USE_COHERE_RERANK \/ ~settings.COHERE_API_KEY
    THEN TakeIfTruthy(documents, top_n)
    ELSE IF CohereRaises(documents, outcome)
    THEN TakeIfTruthy(documents, top_n)
    ELSE IF outcome.kind = "no_results_key"
    THEN <<>>
    ELSE [i \in DOMAIN outcome.results |->
            CohereDoc(documents, outcome.results[i])]

---------------------------------------------------------------------------
(* reranking.py: llm_rerank *)

\* lines 170-174: the copy of the document with its rank fields
LlmDoc(documents, ranking, rank_idx, doc_num) ==
    [documents[doc_num] EXCEPT
        !.llm_rank_score = RSub(One, Rat(rank_idx, Len(ranking))),
        !.llm_rank = rank_idx + 1]

\* the loop of lines 168-174 over ranking[:top_n], rank_idx counted from 0
RECURSIVE LlmLoop(_, _, _, _, _)
LlmLoop(documents, ranking, top_n, rank_idx, reranked_docs) ==
    IF rank_idx >= Len(ranking) \/ rank_idx >= top_n THEN reranked_docs
    ELSE
        LET doc_num == ranking[rank_idx + 1]
        IN  LlmLoop(documents, ranking, top_n, rank_idx + 1,
                IF 1 <= doc_num /\ doc_num <= Len(documents)
                THEN Append(reranked_docs,
                            LlmDoc(documents, ranking, rank_idx, doc_num))
                ELSE reranked_docs)

llm_rerank(documents, top_n, outcome) ==
    IF ~settings.USE_LLM_RERANK
    THEN TakeIfTruthy(documents, top_n)
    ELSE IF outcome.kind \in {"service_error", "bad_json"}
    THEN TakeIfTruthy(documents, top_n)
    ELSE IF outcome.kind = "prose"
    THEN Take(documents, top_n)
    ELSE LlmLoop(documents, outcome.ranking, top_n, 0, <<>>)

---------------------------------------------------------------------------
(* hybrid_search.py: the final quality gate and the response *)

\* the 0.01 of lines 187 and 191
Epsilon == Rat(1, 100)

\* line 187, the first filter
GateFirst(doc) ==
    \/ RGe(doc.score, settings.HYBRID_MIN_SCORE)
    \/ RLt(doc.score, Epsilon)

\* lines 189-192, the second filter
GateSecond(doc) ==
    /\ RGe(doc.score, settings.HYBRID_MIN_SCORE)
    /\ RGt(doc.score, Epsilon)

\* a gate that stops after the filter of line 187
FinalGate_FirstFilterOnly(final_results) ==
    SelectSeq(final_results, GateFirst)

FinalGate(final_results) ==
    SelectSeq(SelectSeq(final_results, GateFirst), GateSecond)

\* lines 196-205: the SearchResult of a candidate
SearchResultOf(doc) ==
    [chunk_id |-> doc.chunk_id, score |-> doc.score, source |-> doc.source]

\* lines 211-220
BuildResponse(final_results, v_count, k_count, dedup_count, cohere_count) ==
    [results |-> [i \in DOMAIN final_results |->
                    SearchResultOf(final_results[i])],
     total_results |-> Len(final_results),
     vector_results_count |-> v_count,
     keyword_results_count |-> k_count,
     after_dedup_count |-> dedup_count,
     after_rerank_count |-> cohere_count]

NoResponse == BuildResponse(<<>>, 0, 0, 0, 0)

---------------------------------------------------------------------------
(* The store and the collaborators' answers *)

TextA == <<"a", "b", "c", "d">>
TextB == <<"a", "b", "c", "e">>
TextC == <<"x", "y">>

\* what the vector index and the text index hold for the query, best first
StoreVector ==
    <<StoreDoc("A", TextA, Rat(91, 100)), StoreDoc("B", TextB, Rat(72, 100))>>
StoreKeyword ==
    <<StoreDoc("B", TextB, Rat(83, 10)), StoreDoc("C", TextC, Rat(51, 10))>>

RECURSIVE Pick(_, _, _)
Pick(s, keep, i) ==
    IF i > Len(s) THEN <<>>
    ELSE (IF i \in keep THEN <<s[i]>> ELSE <<>>) \o Pick(s, keep, i + 1)

\* the documents of a store list that pass the query's filters: any of them
Answers(store) == {Pick(store, keep, 1) : keep \in SUBSET (DOMAIN store)}

\* relevance scores the Stage-1 collaborator may report
RerankScores == {Rat(1, 200), Rat(1, 100), Rat(3, 4)}

CohereFailures == {"timeout", "http_error", "not_json", "no_results_key"}

CohereOutcomes(documents) ==
    {[kind |-> k, results |-> <<>>] : k \in CohereFailures}
    \cup {[kind |-> "ok", results |-> r] :
            r \in UNION {[1..n -> [index : (-1)..Len(documents),
                                   relevance_score : RerankScores]] :
                         n \in 0..MaxItems}}

LlmFailures == {"service_error", "prose", "bad_json"}

LlmOutcomes(documents) ==
    {[kind |-> k, ranking |-> <<>>] : k \in LlmFailures}
    \cup {[kind |-> "ok", ranking |-> r] :
            r \in UNION {[1..n -> 0..(Len(documents) + 1)] :
                         n \in 0..MaxRanking}}

\* what is remembered of a Stage-1 answer: its kind, and whether an item of
\* an "ok" answer names an index outside 0 .. len(documents)-1
CohereSummary(documents, outcome) ==
    [kind |-> outcome.kind,
     out_of_range |->
        \E i \in DOMAIN outcome.results :
            \/ outcome.results[i].index < 0
            \/ outcome.results[i].index >= Len(documents)]

---------------------------------------------------------------------------
(* Configuration and queries *)

Thresholds == {Zero, Rat(1, 2)}


Settings ==
    [HYBRID_MIN_SCORE : Thresholds,
     USE_COHERE_RERANK : BOOLEAN,
     COHERE_API_KEY : BOOLEAN,
     COHERE_RERANK_TOP_N : {StageOneTopN},
     USE_LLM_RERANK : BOOLEAN,
     VECTOR_SCORE_WEIGHT : {Rat(7, 10)},
     KEYWORD_SCORE_WEIGHT : {Rat(3, 10)},
     DEDUP_METHOD : {"id"},
     DEDUP_SIMILARITY_THRESHOLD : {Rat(95, 100)},
     INGESTION_MAX_RETRIES : {3}]

\* models.py: SearchQuery.  filters is None (none = TRUE) or a dict, held as
\* the set of its <<key, value>> items; document_type None is "None"; a year
\* that is None is 0 (both are falsy at lines 124-128)
NoFilters == [none |-> TRUE, items |-> {}]

PlainQuery(top_k) ==
    [top_k |-> top_k, filters |-> NoFilters, document_type |-> "None",
     year_from |-> 0, year_to |-> 0]

Queries == {PlainQuery(k) : k \in 0..MaxTopK}

\* a filter value: an equality on a string, or a year range ($gte, $lte)
FilterValue(eq, gte, lte) == [eq |-> eq, gte |-> gte, lte |-> lte]

\* d[key] = value on a dict held as a set of items
DictPut(d, key, value) ==
    {item \in d : item[1] # key} \cup {<<key, value>>}

\* lines 119-130.  "query.filters or {}" is the query's own dict when that
\* dict is non-empty, and a new dict otherwise; the assignments of lines 122
\* and 130 write into whichever it is
BuildFilters(q) ==
    LET aliased == ~q.filters.none /\ q.filters.items # {}
        f0 == IF aliased THEN q.filters.items ELSE {}
        f1 == IF q.document_type # "None"
              THEN DictPut(f0, "document_type",
                           FilterValue(q.document_type, 0, 0))
              ELSE f0
        f2 == IF q.year_from # 0 \/ q.year_to # 0
              THEN DictPut(f1, "metadata.year_of_judgment",
                           FilterValue("", q.year_from, q.year_to))
              ELSE f1
    IN  [filters |-> f2,
         query |-> IF aliased THEN [q EXCEPT !.filters.items = f2] ELSE q]

---------------------------------------------------------------------------
(* The state of the ingestion services and of side-by-side executions while
   a single hybrid_search execution is looked at *)

\* job ids handed out by uuid4 in create_job
JobIds == {"j1", "j2"}

\* job.result is None
NoResult == [set |-> FALSE, chunks |-> 0, errors |-> FALSE]

\* job_store.get(job_id) is None
NoJob == [status |-> "absent", result |-> NoResult, error |-> "None"]

\* no background task exists for the job
NoTask ==
    [parsing |-> "none", indexing |-> "none", i |-> 0, k |-> 0,
     attempts |-> 0, started |-> 0]

IngestionIdle ==
    /\ job_store = [j \in JobIds |-> NoJob]
    /\ tasks = [j \in JobIds |-> NoTask]
    /\ chunk_store = {}
    /\ confirm_calls = [j \in JobIds |-> {}]

\* the hybrid_search coroutines that run side by side
ExecIds == {1, 2}

\* the locals of a hybrid_search coroutine that has just been called
NewExecution(top_k) ==
    [pc |-> "start", top_k |-> top_k,
     vector_answer |-> <<>>, keyword_answer |-> <<>>,
     cohere_answer |-> [kind |-> "none", results |-> <<>>],
     llm_answer |-> [kind |-> "none", ranking |-> <<>>],
     vector_results |-> <<>>, keyword_results |-> <<>>,
     deduplicated_results |-> <<>>, cohere_reranked |-> <<>>,
     response |-> NoResponse]

ConcurrentIdle == executions = [e \in ExecIds |-> NewExecution(0)]

---------------------------------------------------------------------------
(* hybrid_search.py: hybrid_search, one action per await *)

Init ==
    /\ filters = {}
    /\ IngestionIdle
    /\ ConcurrentIdle
    /\ settings \in Settings
    /\ query \in Queries
    /\ pc = "start"
    /\ embed_attempts = 0
    /\ failed_call = "none"
    /\ vector_results = <<>>
    /\ keyword_results = <<>>
    /\ merged_results = <<>>
    /\ deduplicated_results = <<>>
    /\ cohere_outcome = [kind |-> "none", out_of_range |-> FALSE]
    /\ cohere_reranked = <<>>
    /\ llm_outcome = [kind |-> "none", ranking |-> <<>>]
    /\ llm_reranked = <<>>
    /\ response = NoResponse

\* lines 185-223: gate, SearchResults, response
Finish(final_results, v_count, k_count, dedup_count, cohere_count) ==
    /\ llm_reranked' = final_results
    /\ response' = BuildResponse(FinalGate(final_results), v_count, k_count,
                                 dedup_count, cohere_count)
    /\ pc' = "done"

\* a hand-over that passes all of Stage 1's output on when Stage 2 is off
Stage2_NoTruncation(reranked, vector_count, keyword_count, dedup_count) ==
    /\ cohere_reranked' = reranked
    /\ IF settings.USE_LLM_RERANK
       THEN /\ pc' = "llm"
            /\ UNCHANGED <<llm_reranked, response>>
       ELSE Finish(reranked, vector_count, keyword_count, dedup_count,
                   Len(reranked))

\* lines 173-183: Stage 2 is called, or passed over
Stage2(reranked, vector_count, keyword_count, dedup_count) ==
    /\ cohere_reranked' = reranked
    /\ IF settings.USE_LLM_RERANK
       THEN /\ pc' = "llm"
            /\ UNCHANGED <<llm_reranked, response>>
       ELSE Finish(Take(reranked, query.top_k), vector_count, keyword_count,
                   dedup_count, Len(reranked))

\* lines 115-135: the filters are built, vector_search is entered and awaits
\* the query embedding
Start ==
    /\ pc = "start"
    /\ filters' = BuildFilters(query).filters
    /\ query' = BuildFilters(query).query
    /\ pc' = "embedding"
    /\ UNCHANGED <<settings, embed_attempts, failed_call,
                   vector_results, keyword_results, merged_results,
                   deduplicated_results, cohere_outcome, cohere_reranked,
                   llm_outcome, llm_reranked, response>>
    /\ UNCHANGED <<ingestion_vars, concurrent_vars>>

\* embedder.py 23-45: an attempt of embed_batch returns the embeddings; the
\* retry state of the call ends with it
EmbedReturns ==
    /\ pc = "embedding"
    /\ embed_attempts' = 0
    /\ pc' = "vector_search"
    /\ UNCHANGED <<settings, query, failed_call, vector_results,
                   keyword_results, merged_results, deduplicated_results,
                   cohere_outcome, cohere_reranked, llm_outcome,
                   llm_reranked, response>>
    /\ UNCHANGED <<filters, ingestion_vars, concurrent_vars>>

\* embedder.py 19-22, 47-49: an attempt raises; tenacity retries until
\* stop_after_attempt(INGESTION_MAX_RETRIES), then raises to vector_search,
\* which re-raises (vector_search.py 88-90), and so does hybrid_search
EmbedFails ==
    /\ pc = "embedding"
    /\ embed_attempts' = embed_attempts + 1
    /\ IF embed_attempts + 1 < settings.INGESTION_MAX_RETRIES
       THEN UNCHANGED <<pc, failed_call>>
       ELSE pc' = "raised" /\ failed_call' = "embedding"
    /\ UNCHANGED <<settings, query, vector_results, keyword_results,
                   merged_results, deduplicated_results, cohere_outcome,
                   cohere_reranked, llm_outcome, llm_reranked, response>>
    /\ UNCHANGED <<filters, ingestion_vars, concurrent_vars>>

\* vector_search.py 76-86: the aggregation returns; keyword_search is called
VectorSearchReturns ==
    /\ pc = "vector_search"
    /\ \E answer \in Answers(StoreVector) : vector_results' = answer
    /\ pc' = "keyword_search"
    /\ UNCHANGED <<settings, query, embed_attempts, failed_call,
                   keyword_results, merged_results, deduplicated_results,
                   cohere_outcome, cohere_reranked, llm_outcome,
                   llm_reranked, response>>
    /\ UNCHANGED <<filters, ingestion_vars, concurrent_vars>>

\* a handler that swallows the error and answers with an empty response
RetrievalRaises_EmptyResponse(call) ==
    /\ pc' = "done"
    /\ failed_call' = call
    /\ response' = NoResponse
    /\ UNCHANGED <<vector_results, keyword_results, merged_results,
                   deduplicated_results, cohere_reranked, llm_reranked>>

\* what a retrieval call that raises does to hybrid_search: lines 225-227
RetrievalRaises(call) ==
    /\ pc' = "raised"
    /\ failed_call' = call
    /\ UNCHANGED <<vector_results, keyword_results, merged_results,
                   deduplicated_results, cohere_reranked, llm_reranked,
                   response>>

\* vector_search.py 88-90: the aggregation raises
VectorSearchFails ==
    /\ pc = "vector_search"
    /\ RetrievalRaises("vector_search")
    /\ UNCHANGED <<settings, query, embed_attempts, cohere_outcome,
                   llm_outcome>>
    /\ UNCHANGED <<filters, ingestion_vars, concurrent_vars>>

\* keyword_search.py 97-99: the aggregation raises
KeywordSearchFails ==
    /\ pc = "keyword_search"
    /\ RetrievalRaises("keyword_search")
    /\ UNCHANGED <<settings, query, embed_attempts, cohere_outcome,
                   llm_outcome>>
    /\ UNCHANGED <<filters, ingestion_vars, concurrent_vars>>

\* keyword_search.py 85-95 returns; lines 147-171 run up to the Stage-1 call
KeywordSearchReturns ==
    /\ pc = "keyword_search"
    /\ \E answer \in Answers(StoreKeyword) :
        LET merged == merge_and_score(vector_results, answer)
            filtered == SelectSeq(merged,
                LAMBDA r : RGe(r.score, settings.HYBRID_MIN_SCORE))
            dedup == deduplicate(filtered, settings.DEDUP_METHOD)
        IN  /\ vector_results' = VectorAfterMerge(vector_results)
            /\ keyword_results' = KeywordAfterMerge(vector_results, answer)
            /\ merged_results' = merged
            /\ deduplicated_results' = dedup
            /\ IF settings.USE_COHERE_RERANK /\ settings.COHERE_API_KEY
               THEN /\ pc' = "cohere"
                    /\ UNCHANGED <<cohere_reranked, llm_reranked, response>>
               ELSE Stage2(Take(dedup, settings.COHERE_RERANK_TOP_N),
                           Len(vector_results), Len(answer), Len(dedup))
    /\ UNCHANGED <<settings, query, embed_attempts, failed_call,
                   cohere_outcome, llm_outcome>>
    /\ UNCHANGED <<filters, ingestion_vars, concurrent_vars>>

\* the Stage-1 collaborator answers; lines 165-183 run up to the Stage-2 call
CohereReturns ==
    /\ pc = "cohere"
    /\ \E outcome \in CohereOutcomes(deduplicated_results) :
        /\ cohere_outcome' = CohereSummary(deduplicated_results, outcome)
        /\ Stage2(cohere_rerank(deduplicated_results,
                                settings.COHERE_RERANK_TOP_N, outcome),
                  Len(vector_results), Len(keyword_results),
                  Len(deduplicated_results))
    /\ UNCHANGED <<settings, query, embed_attempts, failed_call,
                   vector_results, keyword_results, merged_results,
                   deduplicated_results, llm_outcome>>
    /\ UNCHANGED <<filters, ingestion_vars, concurrent_vars>>

\* the Stage-2 collaborator answers; lines 177-223 run to the return
LlmReturns ==
    /\ pc = "llm"
    /\ \E outcome \in LlmOutcomes(cohere_reranked) :
        /\ llm_outcome' = outcome
        /\ Finish(llm_rerank(cohere_reranked, query.top_k, outcome),
                  Len(vector_results), Len(keyword_results),
                  Len(deduplicated_results), Len(cohere_reranked))
    /\ UNCHANGED <<settings, query, embed_attempts, failed_call,
                   vector_results, keyword_results, merged_results,
                   deduplicated_results, cohere_outcome, cohere_reranked>>
    /\ UNCHANGED <<filters, ingestion_vars, concurrent_vars>>

Next ==
    \/ Start
    \/ EmbedReturns
    \/ EmbedFails
    \/ VectorSearchReturns
    \/ VectorSearchFails
    \/ KeywordSearchReturns
    \/ KeywordSearchFails
    \/ CohereReturns
    \/ LlmReturns

Spec == Init /\ [][Next]_vars

---------------------------------------------------------------------------
(* merge_and_score on its own: the lists are drawn, then fused *)

ChunkIds == {"A", "B", "C"}

TextOf(id) == IF id = "A" THEN TextA ELSE IF id = "B" THEN TextB ELSE TextC

\* raw scores at or above VECTOR_MIN_SCORE and KEYWORD_MIN_SCORE
VectorRawScores == {Rat(65, 100), Rat(72, 100), Rat(91, 100)}
KeywordRawScores == {Rat(51, 10), Rat(83, 10)}

\* a retriever's result lists: at most MaxLen documents, no chunk_id twice
\* (the store's _id is the chunk_id)
RetrieverLists(raw_scores) ==
    {l \in UNION {[1..n -> {StoreDoc(id, TextOf(id), r) :
                                id \in ChunkIds, r \in raw_scores}] :
                  n \in 0..MaxLen} :
        \A i, j \in DOMAIN l : i # j => l[i].chunk_id # l[j].chunk_id}

DefaultSettings ==
    [HYBRID_MIN_SCORE |-> Zero,
     USE_COHERE_RERANK |-> TRUE,
     COHERE_API_KEY |-> FALSE,
     COHERE_RERANK_TOP_N |-> StageOneTopN,
     USE_LLM_RERANK |-> TRUE,
     VECTOR_SCORE_WEIGHT |-> Rat(7, 10),
     KEYWORD_SCORE_WEIGHT |-> Rat(3, 10),
     DEDUP_METHOD |-> "id",
     DEDUP_SIMILARITY_THRESHOLD |-> Rat(95, 100),
     INGESTION_MAX_RETRIES |-> 3]

\* pairs <<VECTOR_SCORE_WEIGHT, KEYWORD_SCORE_WEIGHT>> an environment may
\* set: the defaults, the vector retriever alone, a sum above 1, a negative
\* weight
FusionWeights ==
    {<<Rat(7, 10), Rat(3, 10)>>, <<One, Zero>>,
     <<Rat(7, 10), Rat(7, 10)>>, <<Rat(3, 2), Rat(-1, 2)>>}

FusionSettings ==
    {[DefaultSettings EXCEPT !.VECTOR_SCORE_WEIGHT = w[1],
                             !.KEYWORD_SCORE_WEIGHT = w[2]] :
        w \in FusionWeights}

InitFusion ==
    /\ filters = {}
    /\ IngestionIdle
    /\ ConcurrentIdle
    /\ settings \in FusionSettings
    /\ query = PlainQuery(MaxTopK)
    /\ pc = "fusion_input"
    /\ embed_attempts = 0
    /\ failed_call = "none"
    /\ vector_results \in RetrieverLists(VectorRawScores)
    /\ keyword_results \in RetrieverLists(KeywordRawScores)
    /\ merged_results = <<>>
    /\ deduplicated_results = <<>>
    /\ cohere_outcome = [kind |-> "none", out_of_range |-> FALSE]
    /\ cohere_reranked = <<>>
    /\ llm_outcome = [kind |-> "none", ranking |-> <<>>]
    /\ llm_reranked = <<>>
    /\ response = NoResponse

\* line 151: merged_results = merge_and_score(vector_results, keyword_results)
Fuse ==
    /\ pc = "fusion_input"
    /\ merged_results' = merge_and_score(vector_results, keyword_results)
    /\ vector_results' = VectorAfterMerge(vector_results)
    /\ keyword_results' = KeywordAfterMerge(vector_results, keyword_results)
    /\ pc' = "fusion_done"
    /\ UNCHANGED <<settings, query, embed_attempts, failed_call,
                   deduplicated_results, cohere_outcome, cohere_reranked,
                   llm_outcome, llm_reranked, response>>
    /\ UNCHANGED <<filters, ingestion_vars, concurrent_vars>>

NextFusion == Fuse

SpecFusion == InitFusion /\ [][NextFusion]_vars

---------------------------------------------------------------------------
(* hybrid_search with filters: queries as the search route, the viability
   service and the drafting service build them, both rerank stages off *)

QueryFilters ==
    {NoFilters,
     [none |-> FALSE, items |-> {}],
     [none |-> FALSE,
      items |-> {<<"metadata.court_name", FilterValue("Madras HC", 0, 0)>>}],
     [none |-> FALSE,
      items |-> {<<"document_type", FilterValue("act", 0, 0)>>}]}

FilteredQueries ==
    {[top_k |-> 1, filters |-> f, document_type |-> t,
      year_from |-> yf, year_to |-> yt] :
        f \in QueryFilters, t \in {"None", "judgment"},
        yf \in {0, 2010}, yt \in {0, 2020}}

InitQuery ==
    /\ filters = {}
    /\ IngestionIdle
    /\ ConcurrentIdle
    /\ settings = [DefaultSettings EXCEPT !.USE_COHERE_RERANK = FALSE,
                                          !.USE_LLM_RERANK = FALSE]
    /\ query \in FilteredQueries
    /\ pc = "start"
    /\ embed_attempts = 0
    /\ failed_call = "none"
    /\ vector_results = <<>>
    /\ keyword_results = <<>>
    /\ merged_results = <<>>
    /\ deduplicated_results = <<>>
    /\ cohere_outcome = [kind |-> "none", out_of_range |-> FALSE]
    /\ cohere_reranked = <<>>
    /\ llm_outcome = [kind |-> "none", ranking |-> <<>>]
    /\ llm_reranked = <<>>
    /\ response = NoResponse

NextQuery ==
    \/ Start
    \/ EmbedReturns
    \/ EmbedFails
    \/ VectorSearchReturns
    \/ VectorSearchFails
    \/ KeywordSearchReturns
    \/ KeywordSearchFails

SpecQuery == InitQuery /\ [][NextQuery]_vars

---------------------------------------------------------------------------
(* cohere_rerank on its own: candidates and a top_n are drawn, the
   collaborator answers *)

\* the fused candidates of the whole store, best first
StoreCandidates == merge_and_score(StoreVector, StoreKeyword)

InitCohere ==
    /\ filters = {}
    /\ IngestionIdle
    /\ ConcurrentIdle
    /\ settings \in
            {[DefaultSettings EXCEPT !.COHERE_API_KEY = TRUE,
                                     !.COHERE_RERANK_TOP_N = n] :
                n \in 1..StageOneTopN}
    /\ query = PlainQuery(MaxTopK)
    /\ pc = "cohere_input"
    /\ embed_attempts = 0
    /\ failed_call = "none"
    /\ vector_results = <<>>
    /\ keyword_results = <<>>
    /\ merged_results = <<>>
    /\ deduplicated_results \in
            {Take(StoreCandidates, n) : n \in 0..Len(StoreCandidates)}
    /\ cohere_outcome = [kind |-> "none", results |-> <<>>]
    /\ cohere_reranked = <<>>
    /\ llm_outcome = [kind |-> "none", ranking |-> <<>>]
    /\ llm_reranked = <<>>
    /\ response = NoResponse

\* lines 165-169: cohere_reranked = await cohere_rerank(...); the whole
\* answer is kept
CohereCall ==
    /\ pc = "cohere_input"
    /\ \E outcome \in CohereOutcomes(deduplicated_results) :
        /\ cohere_outcome' = outcome
        /\ cohere_reranked' =
                cohere_rerank(deduplicated_results,
                              settings.COHERE_RERANK_TOP_N, outcome)
    /\ pc' = "cohere_done"
    /\ UNCHANGED <<settings, query, embed_attempts, failed_call,
                   vector_results, keyword_results, merged_results,
                   deduplicated_results, llm_outcome, llm_reranked,
                   response>>
    /\ UNCHANGED <<filters, ingestion_vars, concurrent_vars>>

NextCohere == CohereCall

SpecCohere == InitCohere /\ [][NextCohere]_vars

---------------------------------------------------------------------------
(* deduplicate on its own: a candidate list is drawn, then deduplicated *)

TextTide == <<"t", "i", "d", "e">>
TextDiet == <<"d", "i", "e", "t">>
TextXy == <<"x", "y">>

DedupTexts == {TextTide, TextDiet, TextXy}

\* candidates as deduplicate may be handed them: any chunk_id with any text
DedupChunks ==
    {StoreDoc(id, text, One) : id \in ChunkIds, text \in DedupTexts}

ChunkLists == UNION {[1..n -> DedupChunks] : n \in 0..MaxChunks}

\* DEDUP_METHOD is a free string; "semantic" is not one of the three names
DedupMethods == {"id", "similarity", "both", "semantic"}

DedupThresholds == {Zero, Rat(1, 2), Rat(95, 100), One}

DedupSettings ==
    {[DefaultSettings EXCEPT !.DEDUP_METHOD = m,
                             !.DEDUP_SIMILARITY_THRESHOLD = t] :
        m \in DedupMethods, t \in DedupThresholds}

InitDedup ==
    /\ filters = {}
    /\ IngestionIdle
    /\ ConcurrentIdle
    /\ settings \in DedupSettings
    /\ query = PlainQuery(MaxTopK)
    /\ pc = "dedup_input"
    /\ embed_attempts = 0
    /\ failed_call = "none"
    /\ vector_results = <<>>
    /\ keyword_results = <<>>
    /\ merged_results \in ChunkLists
    /\ deduplicated_results = <<>>
    /\ cohere_outcome = [kind |-> "none", out_of_range |-> FALSE]
    /\ cohere_reranked = <<>>
    /\ llm_outcome = [kind |-> "none", ranking |-> <<>>]
    /\ llm_reranked = <<>>
    /\ response = NoResponse

\* line 159: deduplicated_results = deduplicate(merged_results)
Dedup ==
    /\ pc = "dedup_input"
    /\ deduplicated_results' = deduplicate(merged_results,
                                           settings.DEDUP_METHOD)
    /\ pc' = "dedup_done"
    /\ UNCHANGED <<settings, query, embed_attempts, failed_call,
                   vector_results, keyword_results, merged_results,
                   cohere_outcome, cohere_reranked, llm_outcome,
                   llm_reranked, response>>
    /\ UNCHANGED <<filters, ingestion_vars, concurrent_vars>>

NextDedup == Dedup

SpecDedup == InitDedup /\ [][NextDedup]_vars

---------------------------------------------------------------------------
(* ingestion.py: IngestionService and its background tasks, one action per
   await.  judgment/ingestion.py: JudgmentIngestionService has the same
   create_job, _process_parsing, confirm_job and _process_indexing over
   judgment_job_store; its extra _save_json_output swallows its errors and
   touches no job status. *)

PipelineIdle ==
    /\ settings = DefaultSettings
    /\ query = PlainQuery(MaxTopK)
    /\ pc = "idle"
    /\ embed_attempts = 0
    /\ failed_call = "none"
    /\ vector_results = <<>>
    /\ keyword_results = <<>>
    /\ merged_results = <<>>
    /\ deduplicated_results = <<>>
    /\ cohere_outcome = [kind |-> "none", out_of_range |-> FALSE]
    /\ cohere_reranked = <<>>
    /\ llm_outcome = [kind |-> "none", ranking |-> <<>>]
    /\ llm_reranked = <<>>
    /\ response = NoResponse
    /\ filters = {}

InitIngestion ==
    /\ PipelineIdle
    /\ ConcurrentIdle
    /\ IngestionIdle

\* what process_pdf may return: a number of chunks, with or without errors
ParserResults ==
    {[set |-> TRUE, chunks |-> n, errors |-> e] :
        n \in 0..MaxJobChunks, e \in BOOLEAN}

\* job.status = FAILED; job.error = ...
FailJob(j, error) ==
    job_store' = [job_store EXCEPT ![j].status = "failed",
                                   ![j].error = error]

\* lines 43-51: create_job with a fresh uuid
CreateJob(j) ==
    /\ job_store[j].status = "absent"
    /\ job_store' = [job_store EXCEPT ![j] =
            [status |-> "queued", result |-> NoResult, error |-> "None"]]
    /\ tasks' = [tasks EXCEPT ![j].parsing = "created"]
    /\ UNCHANGED <<chunk_store, confirm_calls>>
    /\ UNCHANGED <<pipeline_vars, concurrent_vars>>

\* lines 53-62: the parsing task runs up to the await of the parser
ParsingStarts(j) ==
    /\ tasks[j].parsing = "created"
    /\ IF job_store[j].status = "absent"
       THEN /\ tasks' = [tasks EXCEPT ![j].parsing = "ended"]
            /\ UNCHANGED job_store
       ELSE /\ job_store' = [job_store EXCEPT ![j].status = "parsing"]
            /\ tasks' = [tasks EXCEPT ![j].parsing = "awaiting_parser"]
    /\ UNCHANGED <<chunk_store, confirm_calls>>
    /\ UNCHANGED <<pipeline_vars, concurrent_vars>>

\* a parsing task that stops at preview_ready and waits for confirm_job
ParserReturns_PreviewReady(j) ==
    /\ tasks[j].parsing = "awaiting_parser"
    /\ \E result \in ParserResults :
        IF result.errors /\ result.chunks = 0
        THEN FailJob(j, "parser_errors")
        ELSE job_store' = [job_store EXCEPT ![j].result = result,
                                            ![j].status = "preview_ready"]
    /\ tasks' = [tasks EXCEPT ![j].parsing = "ended"]
    /\ UNCHANGED <<chunk_store, confirm_calls>>
    /\ UNCHANGED <<pipeline_vars, concurrent_vars>>

\* lines 62-71: the parser returns; errors without chunks fail the job,
\* anything else goes straight to indexing
ParserReturns(j) ==
    /\ tasks[j].parsing = "awaiting_parser"
    /\ \E result \in ParserResults :
        IF result.errors /\ result.chunks = 0
        THEN /\ FailJob(j, "parser_errors")
             /\ tasks' = [tasks EXCEPT ![j].parsing = "ended"]
        ELSE /\ job_store' = [job_store EXCEPT ![j].result = result,
                                               ![j].status = "indexing"]
             /\ tasks' = [tasks EXCEPT ![j].parsing = "ended",
                                       ![j].indexing = "created",
                                       ![j].started = @ + 1]
    /\ UNCHANGED <<chunk_store, confirm_calls>>
    /\ UNCHANGED <<pipeline_vars, concurrent_vars>>

\* lines 73-75: the parser raises
ParserRaises(j) ==
    /\ tasks[j].parsing = "awaiting_parser"
    /\ FailJob(j, "exception")
    /\ tasks' = [tasks EXCEPT ![j].parsing = "ended"]
    /\ UNCHANGED <<chunk_store, confirm_calls>>
    /\ UNCHANGED <<pipeline_vars, concurrent_vars>>

\* a confirm_job that accepts every job that exists
ConfirmJob_AnyStatus(j) ==
    /\ IF job_store[j].status = "absent"
       THEN /\ confirm_calls' =
                    [confirm_calls EXCEPT ![j] = @ \cup {"raised"}]
            /\ UNCHANGED <<job_store, tasks>>
       ELSE /\ job_store' = [job_store EXCEPT ![j].status = "indexing"]
            /\ tasks' = [tasks EXCEPT ![j].indexing = "created",
                                      ![j].started = @ + 1]
            /\ confirm_calls' =
                    [confirm_calls EXCEPT ![j] = @ \cup {"accepted"}]
    /\ tasks[j].started < 2
    /\ UNCHANGED chunk_store
    /\ UNCHANGED <<pipeline_vars, concurrent_vars>>

\* lines 77-85: confirm_job for any job id, known or not
ConfirmJob(j) ==
    /\ IF job_store[j].status = "absent"
          \/ job_store[j].status # "preview_ready"
       THEN /\ confirm_calls' =
                    [confirm_calls EXCEPT ![j] = @ \cup {"raised"}]
            /\ UNCHANGED <<job_store, tasks>>
       ELSE /\ job_store' = [job_store EXCEPT ![j].status = "indexing"]
            /\ tasks' = [tasks EXCEPT ![j].indexing = "created",
                                      ![j].started = @ + 1]
            /\ confirm_calls' =
                    [confirm_calls EXCEPT ![j] = @ \cup {"accepted"}]
    /\ UNCHANGED chunk_store
    /\ UNCHANGED <<pipeline_vars, concurrent_vars>>

\* lines 87-123: the indexing task runs up to the first embed_batch; a
\* missing result, no chunks, or no database connection raise
IndexingStarts(j) ==
    /\ tasks[j].indexing = "created"
    /\ \E connected \in BOOLEAN :
        IF ~job_store[j].result.set \/ job_store[j].result.chunks = 0
           \/ ~connected
        THEN /\ FailJob(j, "indexing_failed")
             /\ tasks' = [tasks EXCEPT ![j].indexing = "ended"]
        ELSE /\ tasks' = [tasks EXCEPT ![j].indexing = "awaiting_embed",
                                       ![j].i = 0, ![j].k = 0,
                                       ![j].attempts = 0]
             /\ UNCHANGED job_store
    /\ UNCHANGED <<chunk_store, confirm_calls>>
    /\ UNCHANGED <<pipeline_vars, concurrent_vars>>

\* lines 123-140: embed_batch returns one embedding per text; the first
\* replace_one of the batch is awaited
EmbedBatchReturns(j) ==
    /\ tasks[j].indexing = "awaiting_embed"
    /\ tasks' = [tasks EXCEPT ![j].indexing = "awaiting_store",
                              ![j].k = 0, ![j].attempts = 0]
    /\ UNCHANGED <<job_store, chunk_store, confirm_calls>>
    /\ UNCHANGED <<pipeline_vars, concurrent_vars>>

\* embedder.py 19-22, 47-49: an attempt of embed_batch raises; tenacity
\* tries again until INGESTION_MAX_RETRIES attempts, then lines 146-151
EmbedBatchAttemptFails(j) ==
    /\ tasks[j].indexing = "awaiting_embed"
    /\ IF tasks[j].attempts + 1 < settings.INGESTION_MAX_RETRIES
       THEN /\ tasks' = [tasks EXCEPT ![j].attempts = @ + 1]
            /\ UNCHANGED job_store
       ELSE /\ FailJob(j, "indexing_failed")
            /\ tasks' = [tasks EXCEPT ![j].indexing = "ended",
                                      ![j].attempts = 0]
    /\ UNCHANGED <<chunk_store, confirm_calls>>
    /\ UNCHANGED <<pipeline_vars, concurrent_vars>>

\* lines 116-143: a replace_one returns; the next document, the next batch,
\* or the end of the loop
StoreWriteReturns(j) ==
    /\ tasks[j].indexing = "awaiting_store"
    /\ chunk_store' = chunk_store \cup {<<j, tasks[j].i + tasks[j].k>>}
    /\ LET total_chunks == job_store[j].result.chunks
           rest == total_chunks - tasks[j].i
           batch_len == IF rest < BatchSize THEN rest ELSE BatchSize
       IN  IF tasks[j].k + 1 < batch_len
           THEN /\ tasks' = [tasks EXCEPT ![j].k = @ + 1]
                /\ UNCHANGED job_store
           ELSE IF tasks[j].i + BatchSize < total_chunks
           THEN /\ tasks' = [tasks EXCEPT ![j].i = @ + BatchSize,
                                          ![j].k = 0,
                                          ![j].indexing = "awaiting_embed"]
                /\ UNCHANGED job_store
           ELSE /\ tasks' = [tasks EXCEPT ![j].indexing = "ended"]
                /\ job_store' = [job_store EXCEPT ![j].status = "completed"]
    /\ UNCHANGED confirm_calls
    /\ UNCHANGED <<pipeline_vars, concurrent_vars>>

\* lines 140, 146-151: a replace_one raises
StoreWriteRaises(j) ==
    /\ tasks[j].indexing = "awaiting_store"
    /\ FailJob(j, "indexing_failed")
    /\ tasks' = [tasks EXCEPT ![j].indexing = "ended"]
    /\ UNCHANGED <<chunk_store, confirm_calls>>
    /\ UNCHANGED <<pipeline_vars, concurrent_vars>>

\* the steps of the background tasks of a job
TaskStep(j) ==
    \/ ParsingStarts(j)
    \/ ParserReturns(j)
    \/ ParserRaises(j)
    \/ IndexingStarts(j)
    \/ EmbedBatchReturns(j)
    \/ EmbedBatchAttemptFails(j)
    \/ StoreWriteReturns(j)
    \/ StoreWriteRaises(j)

NextIngestion ==
    \E j \in JobIds :
        \/ CreateJob(j)
        \/ ConfirmJob(j)
        \/ TaskStep(j)

SpecIngestion == InitIngestion /\ [][NextIngestion]_vars

\* the event loop runs every task that is ready, and every awaited parser,
\* embedding and store call returns or raises
SpecIngestionFair ==
    /\ InitIngestion
    /\ [][NextIngestion]_vars
    /\ \A j \in JobIds : WF_vars(TaskStep(j))

---------------------------------------------------------------------------
(* hybrid_search called several times side by side: each call is a coroutine
   with its own locals (executions[e]); what the calls have in common is the
   settings object, which no line of the pipeline assigns, the store, and
   the collaborators.  vector_search and keyword_search build each result
   dict from the cursor (vector_search.py 78-82), cohere_rerank and
   llm_rerank open a client per call (reranking.py 40, 104). *)

ConcurrentSettings ==
    {[DefaultSettings EXCEPT !.COHERE_API_KEY = TRUE],
     [DefaultSettings EXCEPT !.USE_COHERE_RERANK = FALSE,
                             !.USE_LLM_RERANK = FALSE]}

\* answers of the store and of the two rerank collaborators to one call
ConcurrentVectorAnswers == {StoreVector, Take(StoreVector, 1)}
ConcurrentKeywordAnswers == {StoreKeyword, <<>>}

ConcurrentCohereAnswers ==
    {[kind |-> "timeout", results |-> <<>>],
     [kind |-> "ok",
      results |-> <<[index |-> 1, relevance_score |-> Rat(3, 4)],
                    [index |-> 0, relevance_score |-> Rat(1, 100)]>>],
     [kind |-> "ok",
      results |-> <<[index |-> 0, relevance_score |-> Rat(3, 4)]>>]}

ConcurrentLlmAnswers ==
    {[kind |-> "prose", ranking |-> <<>>],
     [kind |-> "ok", ranking |-> <<2, 1>>],
     [kind |-> "ok", ranking |-> <<1>>]}

InitConcurrent ==
    /\ IngestionIdle
    /\ settings \in ConcurrentSettings
    /\ query = PlainQuery(MaxTopK)
    /\ pc = "idle"
    /\ embed_attempts = 0
    /\ failed_call = "none"
    /\ vector_results = <<>>
    /\ keyword_results = <<>>
    /\ merged_results = <<>>
    /\ deduplicated_results = <<>>
    /\ cohere_outcome = [kind |-> "none", out_of_range |-> FALSE]
    /\ cohere_reranked = <<>>
    /\ llm_outcome = [kind |-> "none", ranking |-> <<>>]
    /\ llm_reranked = <<>>
    /\ response = NoResponse
    /\ filters = {}
    /\ executions \in [ExecIds -> {NewExecution(k) : k \in {1, MaxTopK}}]

\* lines 185-223 on the locals x of a coroutine
ExecFinish(x, final_results) ==
    [x EXCEPT !.response =
                BuildResponse(FinalGate(final_results),
                              Len(x.vector_results), Len(x.keyword_results),
                              Len(x.deduplicated_results),
                              Len(x.cohere_reranked)),
              !.pc = "done"]

\* lines 173-183 on the locals x of a coroutine
ExecStage2(x, reranked) ==
    LET y == [x EXCEPT !.cohere_reranked = reranked]
    IN  IF settings.USE_LLM_RERANK
        THEN [y EXCEPT !.pc = "llm"]
        ELSE ExecFinish(y, Take(reranked, x.top_k))

\* lines 115-135: up to the await of the query embedding
ExecStart(e) ==
    /\ executions[e].pc = "start"
    /\ executions' = [executions EXCEPT ![e].pc = "embedding"]
    /\ UNCHANGED <<pipeline_vars, ingestion_vars>>

\* vector_search.py 32-33: the embedding call returns
ExecEmbedReturns(e) ==
    /\ executions[e].pc = "embedding"
    /\ executions' = [executions EXCEPT ![e].pc = "vector_search"]
    /\ UNCHANGED <<pipeline_vars, ingestion_vars>>

\* vector_search.py 76-86: the aggregation returns; keyword_search is called
ExecVectorSearchReturns(e) ==
    /\ executions[e].pc = "vector_search"
    /\ \E answer \in ConcurrentVectorAnswers :
        executions' = [executions EXCEPT ![e].vector_answer = answer,
                                         ![e].vector_results = answer,
                                         ![e].pc = "keyword_search"]
    /\ UNCHANGED <<pipeline_vars, ingestion_vars>>

\* lines 225-227: the embedding call (its retries used up), the vector
\* aggregation or the keyword aggregation raises
ExecRetrievalRaises(e) ==
    /\ executions[e].pc \in {"embedding", "vector_search", "keyword_search"}
    /\ executions' = [executions EXCEPT ![e].pc = "raised"]
    /\ UNCHANGED <<pipeline_vars, ingestion_vars>>

\* keyword_search.py 85-95 returns; lines 147-171 run up to the Stage-1 call
ExecKeywordSearchReturns(e) ==
    /\ executions[e].pc = "keyword_search"
    /\ \E answer \in ConcurrentKeywordAnswers :
        LET x == executions[e]
            merged == merge_and_score(x.vector_results, answer)
            filtered == SelectSeq(merged,
                LAMBDA r : RGe(r.score, settings.HYBRID_MIN_SCORE))
            dedup == deduplicate(filtered, settings.DEDUP_METHOD)
            y == [x EXCEPT
                    !.keyword_answer = answer,
                    !.vector_results = VectorAfterMerge(x.vector_results),
                    !.keyword_results =
                        KeywordAfterMerge(x.vector_results, answer),
                    !.deduplicated_results = dedup]
        IN  executions' =
                [executions EXCEPT ![e] =
                    IF settings.USE_COHERE_RERANK /\ settings.COHERE_API_KEY
                    THEN [y EXCEPT !.pc = "cohere"]
                    ELSE ExecStage2(y,
                            Take(dedup, settings.COHERE_RERANK_TOP_N))]
    /\ UNCHANGED <<pipeline_vars, ingestion_vars>>

\* a Stage 1 that reranks a candidate list kept at module level, which the
\* call that fused last has overwritten
ExecCohereReturns_SharedCandidates(e) ==
    /\ executions[e].pc = "cohere"
    /\ \E outcome \in ConcurrentCohereAnswers :
        LET x == executions[e]
            other == CHOOSE f \in ExecIds : f # e
            documents ==
                IF executions[other].pc \in {"cohere", "llm", "done"}
                THEN executions[other].deduplicated_results
                ELSE x.deduplicated_results
        IN  executions' =
                [executions EXCEPT ![e] =
                    ExecStage2([x EXCEPT !.cohere_answer = outcome],
                               cohere_rerank(documents,
                                   settings.COHERE_RERANK_TOP_N, outcome))]
    /\ UNCHANGED <<pipeline_vars, ingestion_vars>>

\* the Stage-1 collaborator answers; lines 165-183 run up to the Stage-2 call
ExecCohereReturns(e) ==
    /\ executions[e].pc = "cohere"
    /\ \E outcome \in ConcurrentCohereAnswers :
        LET x == executions[e]
        IN  executions' =
                [executions EXCEPT ![e] =
                    ExecStage2([x EXCEPT !.cohere_answer = outcome],
                               cohere_rerank(x.deduplicated_results,
                                   settings.COHERE_RERANK_TOP_N, outcome))]
    /\ UNCHANGED <<pipeline_vars, ingestion_vars>>

\* the Stage-2 collaborator answers; lines 177-223 run to the return
ExecLlmReturns(e) ==
    /\ executions[e].pc = "llm"
    /\ \E outcome \in ConcurrentLlmAnswers :
        LET x == executions[e]
        IN  executions' =
                [executions EXCEPT ![e] =
                    ExecFinish([x EXCEPT !.llm_answer = outcome],
                               llm_rerank(x.cohere_reranked, x.top_k,
                                          outcome))]
    /\ UNCHANGED <<pipeline_vars, ingestion_vars>>

\* the event loop resumes any coroutine whose await has an answer
NextConcurrent ==
    \E e \in ExecIds :
        \/ ExecStart(e)
        \/ ExecEmbedReturns(e)
        \/ ExecVectorSearchReturns(e)
        \/ ExecRetrievalRaises(e)
        \/ ExecKeywordSearchReturns(e)
        \/ ExecCohereReturns(e)
        \/ ExecLlmReturns(e)

SpecConcurrent == InitConcurrent /\ [][NextConcurrent]_vars

---------------------------------------------------------------------------
(* Properties of the pipeline, checked under Spec *)

Returned == pc = "done"

\* C1: every response holds at most top_k results, whatever the two rerank
\* stages did (enabled or not, success, error, unparseable answer).
C1_AtMostTopK ==
    Returned => Len(response.results) <= query.top_k

\* C2: the results of every response are in non-increasing order of score,
\* also after Stage 2 reordered the candidates.
C2_SortedByScore ==
    Returned =>
        \A i \in 1..(Len(response.results) - 1) :
            RGe(response.results[i].score, response.results[i + 1].score)

\* C3: no result of a response scores below HYBRID_MIN_SCORE (an empty
\* result list is fine).
C3_NoResultBelowThreshold ==
    Returned =>
        \A i \in DOMAIN response.results :
            RGe(response.results[i].score, settings.HYBRID_MIN_SCORE)

\* a response some of whose candidates the gate kept and some of which it
\* dropped for scoring below a positive threshold
C3_Witness ==
    /\ Returned
    /\ settings.HYBRID_MIN_SCORE # Zero
    /\ response.results # <<>>
    /\ \E i \in DOMAIN llm_reranked :
        RLt(llm_reranked[i].score, settings.HYBRID_MIN_SCORE)

\* the gate as C4 states it: at or above the threshold, and not a non-zero
\* score below 0.01
ClaimedGate(doc) ==
    /\ RGe(doc.score, settings.HYBRID_MIN_SCORE)
    /\ ~(doc.score # Zero /\ RLt(doc.score, Epsilon))

\* C4: a candidate coming out of Stage 2 is emitted if and only if it is at
\* or above the threshold and not a non-zero score below 0.01; a score of
\* exactly 0.01, or of exactly 0 under a threshold of 0, is not dropped.
C4_GateIff ==
    Returned =>
        response.results =
            LET kept == SelectSeq(llm_reranked, ClaimedGate)
            IN  [i \in DOMAIN kept |-> SearchResultOf(kept[i])]

\* C5: once the embedding call, the vector search or the keyword search has
\* failed, hybrid_search has raised and there is no response, neither an
\* empty one nor one built from the retriever that succeeded.
C5_RetrievalFailureIsFatal ==
    failed_call # "none" => pc = "raised" /\ response = NoResponse

\* the keyword search failed after the vector search had returned documents
C5_Witness ==
    /\ failed_call = "keyword_search"
    /\ vector_results # <<>>
    /\ pc = "raised"

\* C6: when the Stage-1 call fails (timeout, HTTP error, malformed response,
\* out-of-range index) cohere_rerank returns the first COHERE_RERANK_TOP_N
\* deduplicated candidates, in order, scores untouched, no original_score.
C6_StageOneFailOpen ==
    (\/ cohere_outcome.kind \in CohereFailures
     \/ cohere_outcome.kind = "ok" /\ cohere_outcome.out_of_range)
    => cohere_reranked =
            Take(deduplicated_results, settings.COHERE_RERANK_TOP_N)

\* C7: when the Stage-2 call fails or its answer holds no parseable array,
\* llm_rerank returns the Stage-1 survivors in order, cut to top_n, for
\* every top_n including 0.
C7_StageTwoFailOpen ==
    (Returned /\ llm_outcome.kind \in LlmFailures)
    => llm_reranked = Take(cohere_reranked, query.top_k)

\* C8: after a successful Stage-2 rerank the candidates stand in the order
\* of the LLM's index array and the candidate at rank i of n carries the
\* score 1 - (i-1)/n, which is the score the response reports.
C8_SyntheticScore ==
    (Returned /\ llm_outcome.kind = "ok") =>
        LET ranking == llm_outcome.ranking
            used == Take(ranking, query.top_k)
        IN  (\A i \in DOMAIN used : used[i] \in 1..Len(cohere_reranked)) =>
                /\ Len(llm_reranked) = Len(used)
                /\ \A i \in DOMAIN used :
                    /\ llm_reranked[i].chunk_id =
                            cohere_reranked[used[i]].chunk_id
                    /\ llm_reranked[i].score =
                            RSub(One, Rat(i - 1, Len(ranking)))
                /\ \A i \in DOMAIN response.results :
                    \E j \in DOMAIN used :
                        /\ response.results[i].chunk_id =
                                llm_reranked[j].chunk_id
                        /\ response.results[i].score =
                                RSub(One, Rat(j - 1, Len(ranking)))

\* the outbound retrieval calls of one execution that have been issued and
\* have not returned or raised: vector_search (with its embedding call) and
\* keyword_search
VectorInFlight == pc \in {"embedding", "vector_search"}
KeywordInFlight == pc = "keyword_search"

\* C20: the keyword search is issued without waiting for the vector search
\* to complete: at the step that issues it the vector search is still in
\* flight, so both calls are in flight together.
C20_KeywordIssuedWhileVectorInFlight ==
    [][(KeywordInFlight' /\ ~KeywordInFlight) => VectorInFlight']_vars

\* C21: no outbound call is retried: while the query embedding is awaited
\* no attempt of it has failed before, i.e. a failed attempt is never
\* followed by another attempt.
C21_NoRetry ==
    pc = "embedding" => embed_attempts = 0

StageOneOff == ~(settings.USE_COHERE_RERANK /\ settings.COHERE_API_KEY)

\* C26: a stage that is switched off (Stage 1 also when no API key is set)
\* hands its input on unchanged, cut to COHERE_RERANK_TOP_N (Stage 1) or to
\* top_k (Stage 2), and its collaborator is not called; this holds for each
\* stage whatever the other stage's switch.
C26_DisabledStagePassesThrough ==
    /\ (pc \in {"llm", "done"} /\ StageOneOff) =>
        /\ cohere_reranked =
                Take(deduplicated_results, settings.COHERE_RERANK_TOP_N)
        /\ cohere_outcome.kind = "none"
    /\ (Returned /\ ~settings.USE_LLM_RERANK) =>
        /\ llm_reranked = Take(cohere_reranked, query.top_k)
        /\ llm_outcome.kind = "none"

\* with both stages off three candidates were cut to two, then to top_k = 1
C26_Witness ==
    /\ Returned
    /\ StageOneOff
    /\ ~settings.USE_LLM_RERANK
    /\ Len(deduplicated_results) = 3
    /\ Len(cohere_reranked) = 2
    /\ query.top_k = 1
    /\ Len(llm_reranked) = 1

\* C27: no two results of a response carry the same chunk_id, and there are
\* never more results than after_rerank_count reports, whatever indices the
\* two collaborators returned.
C27_UniqueResultsWithinCount ==
    Returned =>
        /\ \A i, j \in DOMAIN response.results :
            i # j => response.results[i].chunk_id #
                        response.results[j].chunk_id
        /\ Len(response.results) <= response.after_rerank_count

\* C28: llm_rerank called with candidates and top_n >= 1 returns at least
\* one candidate; an array that names no valid candidate is treated like an
\* unparseable answer.
C28_StageTwoNeverEmpties ==
    (/\ Returned
     /\ llm_outcome.kind # "none"
     /\ cohere_reranked # <<>>
     /\ query.top_k >= 1)
    => llm_reranked # <<>>

---------------------------------------------------------------------------
(* Properties of merge_and_score, checked under SpecFusion *)

Fused == pc = "fusion_done"

\* min-max normalisation as section 4.3 states it, from the raw scores
StatedNorm(list, i) ==
    LET raw == {list[k].score : k \in DOMAIN list}
        lo == CHOOSE x \in raw : \A y \in raw : RLe(x, y)
        hi == CHOOSE x \in raw : \A y \in raw : RLe(y, x)
    IN  IF lo = hi THEN One
        ELSE RDiv(RSub(list[i].score, lo), RSub(hi, lo))

Weighted(weight, norm) == RMul(weight, norm)

\* C9: a chunk_id in both lists appears once in the output, labelled
\* "hybrid", fused = vector_weight * norm_vector + keyword_weight *
\* norm_keyword; a chunk_id in one list only appears once, labelled "vector"
\* or "keyword", fused = that list's weight * its normalized score.
C9_FusedScoreAndSource ==
    Fused =>
        \A id \in ChunkIds :
            LET vi == IndexOfId(vector_results, id)
                ki == IndexOfId(keyword_results, id)
                occ == {m \in DOMAIN merged_results :
                            merged_results[m].chunk_id = id}
                vpart == Weighted(settings.VECTOR_SCORE_WEIGHT,
                                  StatedNorm(vector_results, vi))
                kpart == Weighted(settings.KEYWORD_SCORE_WEIGHT,
                                  StatedNorm(keyword_results, ki))
            IN  /\ Cardinality(occ) = (IF vi # 0 \/ ki # 0 THEN 1 ELSE 0)
                /\ \A m \in occ :
                    /\ (vi # 0 /\ ki # 0) =>
                        /\ merged_results[m].source = "hybrid"
                        /\ merged_results[m].fused_score = RAdd(vpart, kpart)
                    /\ (vi # 0 /\ ki = 0) =>
                        /\ merged_results[m].source = "vector"
                        /\ merged_results[m].fused_score = vpart
                    /\ (vi = 0 /\ ki # 0) =>
                        /\ merged_results[m].source = "keyword"
                        /\ merged_results[m].fused_score = kpart

\* a fusion with a chunk of each kind: both lists, vector only, keyword only
C9_Witness ==
    /\ Fused
    /\ \E a, b, c \in DOMAIN merged_results :
        /\ merged_results[a].source = "hybrid"
        /\ merged_results[b].source = "vector"
        /\ merged_results[c].source = "keyword"
        /\ RLt(Zero, merged_results[a].fused_score)

\* the scenario of section 8: vector A 0.91, B 0.72; keyword B 8.3, C 5.1;
\* weights 0.7 and 0.3
Scenario ==
    /\ Fused
    /\ settings.VECTOR_SCORE_WEIGHT = Rat(7, 10)
    /\ settings.KEYWORD_SCORE_WEIGHT = Rat(3, 10)
    /\ Len(vector_results) = 2
    /\ vector_results[1].chunk_id = "A"
    /\ vector_results[1].score = Rat(91, 100)
    /\ vector_results[2].chunk_id = "B"
    /\ vector_results[2].score = Rat(72, 100)
    /\ Len(keyword_results) = 2
    /\ keyword_results[1].chunk_id = "B"
    /\ keyword_results[1].score = Rat(83, 10)
    /\ keyword_results[2].chunk_id = "C"
    /\ keyword_results[2].score = Rat(51, 10)

FusedOf(id) == merged_results[IndexOfId(merged_results, id)]

\* C10 as stated: in the scenario B ranks first, is labelled "hybrid", and
\* its fused score exceeds that of A and that of C.
C10_HybridRanksFirst ==
    Scenario =>
        /\ merged_results[1].chunk_id = "B"
        /\ FusedOf("B").source = "hybrid"
        /\ RGt(FusedOf("B").fused_score, FusedOf("A").fused_score)
        /\ RGt(FusedOf("B").fused_score, FusedOf("C").fused_score)

\* C10 as amended: in the scenario the order is A (0.7), B (0.3, "hybrid"),
\* C (0.0); B's fused score exceeds C's and is below A's.
C10_ScenarioOrder ==
    Scenario =>
        /\ [i \in DOMAIN merged_results |-> merged_results[i].chunk_id]
                = <<"A", "B", "C">>
        /\ FusedOf("B").source = "hybrid"
        /\ FusedOf("A").fused_score = Rat(7, 10)
        /\ FusedOf("B").fused_score = Rat(3, 10)
        /\ FusedOf("C").fused_score = Zero
        /\ RGt(FusedOf("B").fused_score, FusedOf("C").fused_score)
        /\ RGt(FusedOf("A").fused_score, FusedOf("B").fused_score)

\* the scenario has been fused
C10_Witness ==
    /\ Scenario
    /\ Len(merged_results) = 3

\* the merge step with the keyword list processed first, as C11 describes it:
\* every keyword result is inserted with its weighted normalized score ...
RECURSIVE KeywordFirst(_, _)
KeywordFirst(combined, results) ==
    IF results = <<>> THEN combined
    ELSE KeywordFirst(
            DictSet(combined,
                [Head(results) EXCEPT
                    !.source = "keyword",
                    !.fused_score = RMul(Head(results).normalized_score,
                                         settings.KEYWORD_SCORE_WEIGHT)]),
            Tail(results))

\* ... then every vector result boosts the chunk already present, or is
\* inserted
RECURSIVE VectorSecond(_, _)
VectorSecond(combined, results) ==
    IF results = <<>> THEN combined
    ELSE
        LET result == Head(results)
            i == IndexOfId(combined, result.chunk_id)
            part == RMul(result.normalized_score,
                         settings.VECTOR_SCORE_WEIGHT)
        IN  VectorSecond(
                IF i # 0
                THEN [combined EXCEPT
                        ![i].fused_score = RAdd(combined[i].fused_score, part),
                        ![i].source = "hybrid"]
                ELSE DictSet(combined,
                        [result EXCEPT !.source = "vector",
                                       !.fused_score = part]),
                Tail(results))

MergedKeywordFirst ==
    VectorSecond(KeywordFirst(<<>>, keyword_results), vector_results)

\* C11: processing the keyword list before the vector list gives every
\* chunk_id the same fused score and the same source label as the vector-first
\* order of merge_and_score (lists with unique chunk_ids).
C11_FusionOrderIndependent ==
    Fused =>
        LET other == MergedKeywordFirst
        IN  \A id \in ChunkIds :
                LET m == IndexOfId(merged_results, id)
                    o == IndexOfId(other, id)
                IN  /\ (m = 0) <=> (o = 0)
                    /\ m # 0 =>
                        /\ merged_results[m].fused_score =
                                other[o].fused_score
                        /\ merged_results[m].source = other[o].source

\* a fusion in which a chunk of both lists got a share from each list, next
\* to a keyword-only chunk, so the two processing orders insert differently
C11_Witness ==
    /\ Fused
    /\ RLt(Zero, settings.KEYWORD_SCORE_WEIGHT)
    /\ \E a, c \in DOMAIN merged_results :
        /\ merged_results[a].source = "hybrid"
        /\ merged_results[c].source = "keyword"
        /\ RLt(Zero, merged_results[c].fused_score)
        /\ \E v \in DOMAIN vector_results, k \in DOMAIN keyword_results :
            /\ vector_results[v].chunk_id = merged_results[a].chunk_id
            /\ keyword_results[k].chunk_id = merged_results[a].chunk_id
            /\ RLt(Zero, vector_results[v].normalized_score)
            /\ RLt(Zero, keyword_results[k].normalized_score)
    /\ [i \in DOMAIN merged_results |-> merged_results[i].chunk_id]
        # [i \in DOMAIN MergedKeywordFirst |->
                MergedKeywordFirst[i].chunk_id]

\* the retriever lists as normalize_scores left them
NormalizedLists == {vector_results, keyword_results}

AllEqual(list) == \A i, j \in DOMAIN list : list[i].score = list[j].score

\* C12: in a non-empty list whose raw scores are not all equal every
\* normalized_score lies in [0,1], the items with the maximum raw score get
\* exactly 1.0, those with the minimum exactly 0.0, and the raw-score order
\* is preserved.
C12_MinMaxSpan ==
    Fused =>
        \A list \in NormalizedLists :
            (list # <<>> /\ ~AllEqual(list)) =>
                /\ \A i \in DOMAIN list :
                        /\ RLe(Zero, list[i].normalized_score)
                        /\ RLe(list[i].normalized_score, One)
                        /\ (\A j \in DOMAIN list :
                                RLe(list[j].score, list[i].score))
                            => list[i].normalized_score = One
                        /\ (\A j \in DOMAIN list :
                                RLe(list[i].score, list[j].score))
                            => list[i].normalized_score = Zero
                /\ \A i, j \in DOMAIN list :
                        /\ RLt(list[i].score, list[j].score) =>
                                RLt(list[i].normalized_score,
                                    list[j].normalized_score)
                        /\ list[i].score = list[j].score =>
                                list[i].normalized_score =
                                    list[j].normalized_score

\* a normalized list with a score strictly between its minimum and maximum
C12_Witness ==
    /\ Fused
    /\ \E i \in DOMAIN vector_results :
        /\ RLt(Zero, vector_results[i].normalized_score)
        /\ RLt(vector_results[i].normalized_score, One)
    /\ Len(keyword_results) >= 2
    /\ ~AllEqual(keyword_results)

\* C13: in a list whose raw scores are all equal (a single item included)
\* every normalized_score is 1.0 and nothing was divided by zero; an empty
\* list comes back empty.
C13_EqualScoresGiveOne ==
    Fused =>
        \A list \in NormalizedLists :
            /\ \A i \in DOMAIN list : list[i].normalized_score.d # 0
            /\ AllEqual(list) =>
                \A i \in DOMAIN list : list[i].normalized_score = One

\* a list of several equal raw scores, a single-item list and an empty list
\* have been normalized
C13_Witness ==
    /\ Fused
    /\ Len(vector_results) >= 2
    /\ AllEqual(vector_results)
    /\ Len(keyword_results) <= 1
    /\ \A i \in DOMAIN vector_results :
        vector_results[i].normalized_score = One

WeightsConvex ==
    /\ RLe(Zero, settings.VECTOR_SCORE_WEIGHT)
    /\ RLe(Zero, settings.KEYWORD_SCORE_WEIGHT)
    /\ RAdd(settings.VECTOR_SCORE_WEIGHT, settings.KEYWORD_SCORE_WEIGHT) = One

\* C14: under non-negative weights that sum to 1.0 every merged candidate
\* has a fused_score in [0,1], the output is in non-increasing order of
\* fused_score, and each candidate's score is its fused_score.
C14_ConvexSortedScore ==
    (Fused /\ WeightsConvex) =>
        /\ \A i \in DOMAIN merged_results :
            /\ RLe(Zero, merged_results[i].fused_score)
            /\ RLe(merged_results[i].fused_score, One)
            /\ merged_results[i].score = merged_results[i].fused_score
        /\ \A i \in 1..(Len(merged_results) - 1) :
            RGe(merged_results[i].fused_score,
                merged_results[i + 1].fused_score)

\* under the default weights the sort moved a chunk of both lists, fused to
\* exactly 1.0, ahead of a vector result that was inserted before it
C14_Witness ==
    /\ Fused
    /\ WeightsConvex
    /\ RLt(Zero, settings.KEYWORD_SCORE_WEIGHT)
    /\ Len(merged_results) = 3
    /\ merged_results[1].source = "hybrid"
    /\ merged_results[1].fused_score = One
    /\ Len(vector_results) >= 2
    /\ vector_results[1].chunk_id # merged_results[1].chunk_id

\* C19: weights that do not sum to 1.0 are rejected before use: no fusion
\* is ever computed under them.
C19_BadWeightsRejected ==
    (Fused /\ merged_results # <<>>) =>
        RAdd(settings.VECTOR_SCORE_WEIGHT, settings.KEYWORD_SCORE_WEIGHT) = One

---------------------------------------------------------------------------
(* Properties of the query, checked under SpecQuery *)

\* C22: hybrid_search never modifies the SearchQuery it was given: filters,
\* document_type, year_from, year_to and top_k keep the caller's values at
\* every step, also for a non-empty filters map with a document type or a
\* year range.
C22_QueryNotModified ==
    [][query' = query]_vars

---------------------------------------------------------------------------
(* Properties of cohere_rerank, checked under SpecCohere *)

\* the collaborator answered with items whose indices all name a candidate
StageOneSucceeded ==
    /\ pc = "cohere_done"
    /\ cohere_outcome.kind = "ok"
    /\ \A i \in DOMAIN cohere_outcome.results :
        cohere_outcome.results[i].index \in
            0..(Len(deduplicated_results) - 1)

\* the output is, item by item, the candidate at the reported index with the
\* reported score, the earlier score kept as original_score
StageOneMapped ==
    /\ Len(cohere_reranked) <= Len(cohere_outcome.results)
    /\ \A i \in DOMAIN cohere_reranked :
        LET item == cohere_outcome.results[i]
            before == deduplicated_results[item.index + 1]
        IN  /\ cohere_reranked[i].chunk_id = before.chunk_id
            /\ cohere_reranked[i].text_for_embedding =
                    before.text_for_embedding
            /\ cohere_reranked[i].source = before.source
            /\ cohere_reranked[i].score = item.relevance_score
            /\ cohere_reranked[i].original_score = before.score

\* C25: after a successful Stage-1 call every returned candidate is a copy
\* of the input candidate at the reported index, score replaced by the
\* relevance score and original_score the score before Stage 1, and the
\* output holds at most top-N candidates whatever the collaborator returned.
C25_StageOneMapsAndKeepsTopN ==
    StageOneSucceeded =>
        /\ StageOneMapped
        /\ Len(cohere_reranked) <= settings.COHERE_RERANK_TOP_N

---------------------------------------------------------------------------
(* Properties of deduplicate, checked under SpecDedup *)

Deduplicated == pc = "dedup_done"

\* the similarity of two texts meets the configured threshold
Similar(a, b) == RGe(ratio(a, b), settings.DEDUP_SIMILARITY_THRESHOLD)

\* C15: after deduplicate no two survivors are duplicates under the active
\* strategy: none share a chunk_id (id, both), and no two have a text
\* similarity at or above the threshold in either comparison direction
\* (similarity, both).
C15_NoDuplicateSurvives ==
    Deduplicated =>
        \A i, j \in DOMAIN deduplicated_results :
            i # j =>
                /\ settings.DEDUP_METHOD \in {"id", "both"} =>
                    deduplicated_results[i].chunk_id #
                        deduplicated_results[j].chunk_id
                /\ settings.DEDUP_METHOD \in {"similarity", "both"} =>
                    ~Similar(deduplicated_results[i].text_for_embedding,
                             deduplicated_results[j].text_for_embedding)

\* the input positions holding the first occurrence of their chunk_id
FirstOccurrences(chunks) ==
    {i \in DOMAIN chunks :
        \A j \in 1..(i - 1) : chunks[j].chunk_id # chunks[i].chunk_id}

\* C16: identity dedup returns exactly the first occurrence of each distinct
\* chunk_id, in input order; a candidate whose chunk_id differs from all
\* before it is never dropped.
C16_IdentityKeepsFirstOccurrences ==
    (Deduplicated /\ settings.DEDUP_METHOD = "id") =>
        /\ deduplicated_results =
                Pick(merged_results, FirstOccurrences(merged_results), 1)
        /\ \A i \in DOMAIN merged_results :
            \E k \in DOMAIN deduplicated_results :
                deduplicated_results[k].chunk_id = merged_results[i].chunk_id

\* identity dedup dropped a repeated chunk_id and kept two candidates of
\* different chunk_ids that carry the same text
C16_Witness ==
    /\ Deduplicated
    /\ settings.DEDUP_METHOD = "id"
    /\ Len(merged_results) = 3
    /\ Len(deduplicated_results) = 2
    /\ deduplicated_results[1].text_for_embedding =
            deduplicated_results[2].text_for_embedding

\* C17: similarity dedup with threshold 1.0 returns its input unchanged when
\* no two candidates carry identical text, and with threshold 0.0 returns
\* only the first candidate of a non-empty input.
C17_ThresholdExtremes ==
    (Deduplicated /\ settings.DEDUP_METHOD = "similarity") =>
        /\ (/\ settings.DEDUP_SIMILARITY_THRESHOLD = One
            /\ \A i, j \in DOMAIN merged_results :
                i # j => merged_results[i].text_for_embedding #
                            merged_results[j].text_for_embedding)
            => deduplicated_results = merged_results
        /\ (/\ settings.DEDUP_SIMILARITY_THRESHOLD = Zero
            /\ merged_results # <<>>)
            => deduplicated_results = <<merged_results[1]>>

\* threshold 0.0 collapsed three candidates, one of which shares no character
\* with the first (similarity exactly 0.0)
C17_Witness ==
    /\ Deduplicated
    /\ settings.DEDUP_METHOD = "similarity"
    /\ settings.DEDUP_SIMILARITY_THRESHOLD = Zero
    /\ Len(merged_results) = 3
    /\ Len(deduplicated_results) = 1
    /\ \E i \in DOMAIN merged_results :
        ratio(merged_results[i].text_for_embedding,
              merged_results[1].text_for_embedding) = Zero

\* threshold 1.0 left three candidates of pairwise different text unchanged
C17_WitnessNoOp ==
    /\ Deduplicated
    /\ settings.DEDUP_METHOD = "similarity"
    /\ settings.DEDUP_SIMILARITY_THRESHOLD = One
    /\ Len(deduplicated_results) = 3

\* C18: under a strategy name other than "id", "similarity" and "both",
\* deduplicate returns what identity dedup returns, never the unfiltered
\* input.
C18_UnknownMethodIsIdentity ==
    (Deduplicated /\ settings.DEDUP_METHOD \notin {"id", "similarity", "both"})
    =>  /\ deduplicated_results = deduplicate_by_id(merged_results)
        /\ \A i, j \in DOMAIN deduplicated_results :
            i # j => deduplicated_results[i].chunk_id #
                        deduplicated_results[j].chunk_id

\* an unknown strategy name dropped a repeated chunk_id
C18_Witness ==
    /\ Deduplicated
    /\ settings.DEDUP_METHOD = "semantic"
    /\ Len(deduplicated_results) < Len(merged_results)
    /\ deduplicated_results # <<>>

---------------------------------------------------------------------------
(* Properties of the ingestion jobs, checked under SpecIngestion and
   SpecIngestionFair *)

Confirmed(j) == "accepted" \in confirm_calls[j]

\* C24: a job whose PDF parsed is held at preview_ready, nothing embedded or
\* written, until confirm is called for it: indexing is started, chunks are
\* written and the job is indexing or completed only after a confirm call
\* for that job succeeded.
C24_IndexingOnlyAfterConfirm ==
    \A j \in JobIds :
        (\/ job_store[j].status \in {"indexing", "completed"}
         \/ tasks[j].started > 0
         \/ \E c \in chunk_store : c[1] = j)
        => Confirmed(j)

AllowedStatusChanges ==
    {<<"absent", "queued">>, <<"queued", "parsing">>,
     <<"parsing", "indexing">>, <<"parsing", "failed">>,
     <<"preview_ready", "indexing">>,
     <<"indexing", "completed">>, <<"indexing", "failed">>}

\* a step changes a job's status only along the allowed edges, and leaves
\* preview_ready only by a confirm call that succeeds
StatusStep ==
    \A j \in JobIds :
        job_store'[j].status # job_store[j].status =>
            /\ <<job_store[j].status, job_store'[j].status>>
                    \in AllowedStatusChanges
            /\ job_store[j].status = "preview_ready" =>
                    confirm_calls'[j] # confirm_calls[j]

\* a confirm call succeeds only on a job at preview_ready; one that raises
\* changes neither the jobs, nor the tasks, nor the store
ConfirmStep ==
    \A j \in JobIds :
        confirm_calls'[j] # confirm_calls[j] =>
            IF job_store[j].status = "preview_ready"
            THEN "accepted" \in confirm_calls'[j]
            ELSE /\ confirm_calls'[j] = confirm_calls[j] \cup {"raised"}
                 /\ job_store' = job_store
                 /\ tasks' = tasks
                 /\ chunk_store' = chunk_store

JobInvariant ==
    \A j \in JobIds :
        /\ tasks[j].started <= 1
        /\ (job_store[j].error # "None") <=> (job_store[j].status = "failed")

Terminal(j) == job_store[j].status \in {"completed", "failed"}

---------------------------------------------------------------------------
(* Properties of side-by-side executions, checked under SpecConcurrent *)

\* lines 151-159 of a call that runs alone and is given the answers that
\* execution x was given
AloneCandidates(x) ==
    deduplicate(
        SelectSeq(merge_and_score(x.vector_answer, x.keyword_answer),
                  LAMBDA r : RGe(r.score, settings.HYBRID_MIN_SCORE)),
        settings.DEDUP_METHOD)

\* lines 164-171 of that call
AloneStageOne(x) ==
    IF settings.USE_COHERE_RERANK /\ settings.COHERE_API_KEY
    THEN cohere_rerank(AloneCandidates(x), settings.COHERE_RERANK_TOP_N,
                       x.cohere_answer)
    ELSE Take(AloneCandidates(x), settings.COHERE_RERANK_TOP_N)

\* lines 176-220 of that call
AloneResponse(x) ==
    BuildResponse(
        FinalGate(IF settings.USE_LLM_RERANK
                  THEN llm_rerank(AloneStageOne(x), x.top_k, x.llm_answer)
                  ELSE Take(AloneStageOne(x), x.top_k)),
        Len(x.vector_answer), Len(x.keyword_answer),
        Len(AloneCandidates(x)), Len(AloneStageOne(x)))

\* at every point of an execution its candidate lists, and at its return
\* its response, are those of the call run alone on the same answers
SameAsAlone ==
    \A e \in ExecIds :
        LET x == executions[e]
        IN  /\ x.pc \in {"cohere", "llm", "done"} =>
                x.deduplicated_results = AloneCandidates(x)
            /\ x.pc \in {"llm", "done"} =>
                x.cohere_reranked = AloneStageOne(x)
            /\ x.pc = "done" => x.response = AloneResponse(x)

\* a step of one execution leaves the locals of every other execution, and
\* the settings, as they were
OwnLocalsOnly ==
    /\ settings' = settings
    /\ \A e, f \in ExecIds :
        (e # f /\ executions'[e] # executions[e]) =>
            executions'[f] = executions[f]

\* C23: for every interleaving of hybrid_search executions, each execution
\* returns the response it would return when run alone against the same
\* store and collaborator answers, and no execution reads or writes another
\* execution's candidate list.
C23_ExecutionsIndependent ==
    /\ []SameAsAlone
    /\ [][OwnLocalsOnly]_vars

\* one execution has returned two results while the other, given other
\* answers, still waits for Stage 2 with a different candidate list
C23_Witness ==
    /\ executions[1].pc = "done"
    /\ executions[1].response.total_results = 2
    /\ executions[2].pc = "llm"
    /\ executions[2].cohere_reranked # <<>>
    /\ executions[2].deduplicated_results
            # executions[1].deduplicated_results
    /\ executions[2].cohere_answer # executions[1].cohere_answer

===========================================================================
